---- MODULE Spec2Model ----
(***************************************************************************)
(* Model of src/server.js: the in-memory session store (clients, sessions, *)
(* phoneCodeHashes) and the HTTP handlers that drive an account through    *)
(* the phone-code / two-factor authentication flow, and the handlers of    *)
(* the incoming-message events that run the voice transcription pipeline.  *)
(*                                                                         *)
(* Every handler is an async function on a single-threaded event loop: it  *)
(* runs atomically from one `await` to the next.  A request in flight is a *)
(* task whose pc names the network call it is suspended at; one action     *)
(* models the code between two suspension points.                          *)
(*                                                                         *)
(* The protocol client library (TelegramClient) is external: every call to *)
(* it resolves with one of the outcomes the library can produce, chosen    *)
(* nondeterministically.                                                   *)
(***************************************************************************)
EXTENDS Naturals, FiniteSets, Sequences, TLC

\* ---------------------------------------------------------------- bounds
MaxHandles == 2   \* TelegramClient objects constructed in one run
MaxTasks   == 2   \* requests in flight at the same time
MaxAttach  == 2   \* a request is started on a handle only below this many handlers
MaxRequests == 3  \* requests and message events received in one run

Accounts == {"a", "b"}
Handles  == 1..MaxHandles
Tasks    == 1..MaxTasks
None     == 0                 \* Map.get() of a missing key / null / ''
WrongHash == MaxHandles + 1   \* a phoneCodeHash no sendCode ever returned

VARIABLES
  clients,          \* clients Map: account -> handle (None: no entry)
  sessions,         \* sessions Map: account -> session string (None: no entry)
  phoneCodeHashes,  \* phoneCodeHashes Map: account -> hash (None: no entry)
  handles,          \* the TelegramClient objects: connection, protocol state, handlers
  nh,               \* number of TelegramClient objects constructed so far
  tasks,            \* the requests in flight
  computeCheck,     \* whether the Password import succeeded at load time
  lastCode,         \* per account: the hash of the last response, if that was
                    \* a requiresCode answer of /api/connect (None otherwise)
  nreq,             \* requests and message events received so far
  delivered,        \* the message event delivered in the last step (none: NoDelivery)
  evs,              \* the NewMessage events whose callbacks are in progress,
                    \* and those whose callbacks returned in the last step,
                    \* each with what its callbacks have done
  resp              \* the response sent by the last step (kind "none": none):
                    \* endpoint, account, outcome, phoneCodeHash answered, whether
                    \* the request called sendCode, whether it ran alone for its
                    \* account, the client it used, lastCode before it

vars == <<clients, sessions, phoneCodeHashes, handles, nh, tasks, computeCheck,
          lastCode, nreq, delivered, evs, resp>>

store == <<clients, sessions, phoneCodeHashes>>

\* ------------------------------------------------------ protocol errors
\* An error thrown by the protocol client: message, code, class name.
ErrPasswordNeeded == [msg |-> "SESSION_PASSWORD_NEEDED", code |-> 401, cls |-> "RPCError"]
ErrCodeInvalid    == [msg |-> "PHONE_CODE_INVALID", code |-> 400, cls |-> "RPCError"]
ErrCodeExpired    == [msg |-> "PHONE_CODE_EXPIRED", code |-> 400, cls |-> "RPCError"]
ErrPhoneInvalid   == [msg |-> "PHONE_NUMBER_INVALID", code |-> 400, cls |-> "RPCError"]
ErrHashInvalid    == [msg |-> "PASSWORD_HASH_INVALID", code |-> 400, cls |-> "RPCError"]
ErrFlood          == [msg |-> "FLOOD_WAIT", code |-> 420, cls |-> "FloodWaitError"]
ErrNetwork        == [msg |-> "Not connected", code |-> 0, cls |-> "Error"]

\* String.prototype.includes on the messages above: Parts[m] is the set of
\* the searched literals that occur in m.
Parts(m) ==
  CASE m = "SESSION_PASSWORD_NEEDED" -> {"SESSION_PASSWORD_NEEDED"}
    [] m = "PHONE_CODE_INVALID"      -> {"PHONE_CODE_INVALID", "CODE_INVALID"}
    [] m = "PHONE_CODE_EXPIRED"      -> {"PHONE_CODE_EXPIRED", "CODE_EXPIRED"}
    [] m = "PASSWORD_HASH_INVALID"   -> {"PASSWORD_HASH_INVALID"}
    [] OTHER                         -> {}

includes(m, lit) == lit \in Parts(m)

\* className.includes(...)
clsIncludes(c, lit) ==
  CASE lit = "Password"  -> c \in {"PasswordHashInvalidError", "SessionPasswordNeededError"}
    [] lit = "PhoneCode" -> c \in {"PhoneCodeInvalidError", "PhoneCodeExpiredError"}
    [] OTHER             -> FALSE


\* ------------------------------------------------------------- records
NoHandle == [conn |-> "none", st |-> "fresh", nhandlers |-> 0, owner |-> "-"]

Idle == [pc |-> "idle", user |-> "-", client |-> None, solo |-> FALSE,
         sent |-> FALSE, arg |-> None, target |-> "-", auth |-> "-",
         missing |-> "-"]

NoResp == [kind |-> "none", user |-> "-", out |-> "-", hash |-> None,
           sent |-> FALSE, solo |-> FALSE, client |-> None, prev |-> None,
           from |-> "-", auth |-> "-", missing |-> "-"]

NoDelivery == [h |-> None, text |-> <<>>, reply |-> None]

\* The lowest free task slot: where an arriving request is put.
FreeSlot == CHOOSE t \in Tasks : /\ tasks[t].pc = "idle"
                                 /\ \A s \in Tasks : tasks[s].pc = "idle" => t <= s

HasFreeSlot == \E t \in Tasks : tasks[t].pc = "idle"

InFlight(u) == {t \in Tasks : tasks[t].pc # "idle" /\ tasks[t].user = u}

\* A request for account u arrives: the requests already in flight for u no
\* longer run alone.
Unsolo(u) == [t \in Tasks |->
                IF tasks[t].user = u THEN [tasks[t] EXCEPT !.solo = FALSE]
                ELSE tasks[t]]

\* The Authorization header of a request: none, or a string.  The string the
\* middleware expects is made of WORKERS_WEBHOOK_KEY.
expectedAuth == "Bearer key"

AuthHeaders == {"", "Bearer other", expectedAuth}

\* The middleware lets a request without the header through.
checkAuthNoHeader(authHeader) == ~(authHeader # "" /\ authHeader # expectedAuth)

\* checkAuth: next() is called iff the header is there and is the expected one.
checkAuth(authHeader) == ~(authHeader = "" \/ authHeader # expectedAuth)

\* Task t starts a request for u and suspends at pc: the request has passed
\* checkAuth.
\* arg: the value the suspended call was given (a hash, a session string).
\* target: the message getMessages returned to the request (targetMessage).
\* missing: the field of the body that the request lacks, "-" if none.
BeginWith(t, u, pc, client, arg, missing) ==
  /\ nreq < MaxRequests /\ nreq' = nreq + 1
  /\ \E authHeader \in AuthHeaders :
       /\ checkAuth(authHeader)
       /\ tasks' = [Unsolo(u) EXCEPT ![t] =
                   [pc |-> pc, user |-> u, client |-> client,
                    solo |-> InFlight(u) = {}, sent |-> FALSE, arg |-> arg,
                    target |-> "-", auth |-> authHeader, missing |-> missing]]

\* The same for a request whose body is complete.
Begin(t, u, pc, client, arg) == BeginWith(t, u, pc, client, arg, "-")

\* Task t moves to its next suspension point without answering.
Goto(t, pc) == tasks' = [tasks EXCEPT ![t].pc = pc] /\ nreq' = nreq

\* The events still being handled: a finished one is kept for one state.
InProgress(e) == e.k # 0

Pending(es) == SelectSeq(es, InProgress)

Silent ==
  /\ resp' = NoResp /\ lastCode' = lastCode
  /\ evs' = Pending(evs) /\ delivered' = NoDelivery

Done(u, kind, out, hash) ==
  /\ lastCode' = [lastCode EXCEPT ![u] =
                    IF kind = "connect" /\ out = "requiresCode" THEN hash ELSE None]
  /\ evs' = Pending(evs) /\ delivered' = NoDelivery

\* res.json(...) of a request that answers in the step that received it,
\* after it has passed checkAuth.
AnswerWith(kind, u, out, hash, missing) ==
  /\ nreq < MaxRequests /\ nreq' = nreq + 1
  /\ tasks' = Unsolo(u)
  /\ \E authHeader \in AuthHeaders :
       /\ checkAuth(authHeader)
       /\ resp' = [kind |-> kind, user |-> u, out |-> out, hash |-> hash,
                   sent |-> FALSE, solo |-> InFlight(u) = {}, client |-> None,
                   prev |-> lastCode[u], from |-> "-", auth |-> authHeader,
                   missing |-> missing]
  /\ Done(u, kind, out, hash)

\* The same for a request whose body is complete.
Answer(kind, u, out, hash) == AnswerWith(kind, u, out, hash, "-")

\* res.json(...) of the suspended request t: the handler returns.
\* from: the call the request was awaiting when it answered.
Respond(t, kind, out, hash) ==
  LET u == tasks[t].user IN
  /\ nreq' = nreq
  /\ tasks' = [tasks EXCEPT ![t] = Idle]
  /\ resp' = [kind |-> kind, user |-> u, out |-> out, hash |-> hash,
              sent |-> tasks[t].sent, solo |-> tasks[t].solo,
              client |-> tasks[t].client, prev |-> lastCode[u],
              from |-> tasks[t].pc, auth |-> tasks[t].auth,
              missing |-> tasks[t].missing]
  /\ Done(u, kind, out, hash)

\* ------------------------------------------------------- store helpers
getSavedSession(u) == sessions[u]

\* client.session.save(): the session string of a connected handle.
save(h) == h

\* saveSession(userId, sessionString)
saveSession(u, sessionString) ==
  IF sessionString # None THEN [sessions EXCEPT ![u] = sessionString] ELSE sessions

\* client.addEventHandler(..., new NewMessage({})) on handle h
addEventHandler(hs, h) == [hs EXCEPT ![h].nhandlers = @ + 1]

\* new TelegramClient(session, ...): the next object
NewClient == nh + 1

\* The object is constructed in a request of account u; every handler
\* closure later attached to it captures that userId.
Construct(u) == [handles EXCEPT ![NewClient].conn = "new", ![NewClient].owner = u]

Init ==
  /\ clients = [u \in Accounts |-> None]
  /\ sessions = [u \in Accounts |-> None]
  /\ phoneCodeHashes = [u \in Accounts |-> None]
  /\ handles = [h \in Handles |-> NoHandle]
  /\ nh = 0
  /\ tasks = [t \in Tasks |-> Idle]
  /\ computeCheck \in BOOLEAN
  /\ lastCode = [u \in Accounts |-> None]
  /\ resp = NoResp
  /\ nreq = 0
  /\ evs = <<>>
  /\ delivered = NoDelivery

\* ------------------------------------------------------- /api/connect
\* Valid request: a new client is constructed and client.connect() awaited.
ConnectStart(t, u) ==
  /\ HasFreeSlot /\ t = FreeSlot
  /\ nh < MaxHandles
  /\ nh' = nh + 1
  /\ handles' = Construct(u)
  /\ Begin(t, u, "c_connect", NewClient, None)
  /\ Silent
  /\ UNCHANGED <<clients, sessions, phoneCodeHashes, computeCheck>>

\* client.connect() resolves: checkAuthorization() is awaited next.
ConnectConnected(t) ==
  /\ tasks[t].pc = "c_connect"
  /\ handles' = [handles EXCEPT ![tasks[t].client].conn = "live"]
  /\ Goto(t, "c_check")
  /\ Silent
  /\ UNCHANGED <<clients, sessions, phoneCodeHashes, nh, computeCheck>>

\* client.connect() rejects: the outer catch answers 500.
ConnectFailed(t) ==
  /\ tasks[t].pc = "c_connect"
  /\ handles' = [handles EXCEPT ![tasks[t].client].conn = "closed"]
  /\ Respond(t, "connect", "error500", None)
  /\ UNCHANGED <<clients, sessions, phoneCodeHashes, nh, computeCheck>>

\* Mutant: the "code already sent" test is missing, sendCode is always called.
ConnectNotAuthorizedResend(t) ==
  /\ tasks[t].pc = "c_check"
  /\ tasks' = [tasks EXCEPT ![t].pc = "c_send", ![t].sent = TRUE]
  /\ nreq' = nreq
  /\ Silent
  /\ UNCHANGED <<clients, sessions, phoneCodeHashes, handles, nh, computeCheck>>

\* isAuthorized = false and a code was already sent: answer the stored hash.
\* Otherwise client.sendCode() is called and awaited.
ConnectNotAuthorized(t) ==
  LET u == tasks[t].user
      existingHash == phoneCodeHashes[u] IN
  /\ tasks[t].pc = "c_check"
  /\ IF existingHash # None /\ clients[u] # None
       THEN Respond(t, "connect", "requiresCode", existingHash)
       ELSE /\ tasks' = [tasks EXCEPT ![t].pc = "c_send", ![t].sent = TRUE]
            /\ nreq' = nreq
            /\ Silent
  /\ UNCHANGED <<clients, sessions, phoneCodeHashes, handles, nh, computeCheck>>

\* Mutant: the already-authorized path answers without saving the session.
ConnectAuthorizedNoSave(t) ==
  LET u == tasks[t].user
      client == tasks[t].client IN
  /\ tasks[t].pc = "c_check"
  /\ clients' = [clients EXCEPT ![u] = client]
  /\ handles' = addEventHandler([handles EXCEPT ![client].st = "authorized"], client)
  /\ Respond(t, "connect", "connected", None)
  /\ UNCHANGED <<sessions, phoneCodeHashes, nh, computeCheck>>

\* isAuthorized = true: save the session, store the client, attach the handler.
ConnectAuthorized(t) ==
  LET u == tasks[t].user
      client == tasks[t].client IN
  /\ tasks[t].pc = "c_check"
  /\ sessions' = saveSession(u, save(client))
  /\ clients' = [clients EXCEPT ![u] = client]
  /\ handles' = addEventHandler([handles EXCEPT ![client].st = "authorized"], client)
  /\ Respond(t, "connect", "connected", None)
  /\ UNCHANGED <<phoneCodeHashes, nh, computeCheck>>

\* sendCode resolves: the hash is stored, the client is not.
ConnectCodeSentHashOnly(t) ==
  LET u == tasks[t].user
      client == tasks[t].client
      phoneCodeHash == client IN
  /\ tasks[t].pc = "c_send"
  /\ handles' = [handles EXCEPT ![client].st = "codeSent"]
  /\ phoneCodeHashes' = [phoneCodeHashes EXCEPT ![u] = phoneCodeHash]
  /\ Respond(t, "connect", "requiresCode", phoneCodeHash)
  /\ UNCHANGED <<clients, sessions, nh, computeCheck>>

\* sendCode resolves: store the client and the hash it returned.
ConnectCodeSent(t) ==
  LET u == tasks[t].user
      client == tasks[t].client
      phoneCodeHash == client IN   \* each sendCode returns a hash of its own
  /\ tasks[t].pc = "c_send"
  /\ handles' = [handles EXCEPT ![client].st = "codeSent"]
  /\ clients' = [clients EXCEPT ![u] = client]
  /\ phoneCodeHashes' = [phoneCodeHashes EXCEPT ![u] = phoneCodeHash]
  /\ Respond(t, "connect", "requiresCode", phoneCodeHash)
  /\ UNCHANGED <<sessions, nh, computeCheck>>

\* sendCode rejects: the inner catch answers 500, nothing is stored.
ConnectSendFailed(t) ==
  /\ tasks[t].pc = "c_send"
  /\ Respond(t, "connect", "sendCodeFailed", None)
  /\ UNCHANGED <<clients, sessions, phoneCodeHashes, handles, nh, computeCheck>>

Connect(U) ==
  \/ \E t \in Tasks, u \in U : ConnectStart(t, u)
  \/ \E t \in Tasks : ConnectConnected(t)
  \/ \E t \in Tasks : ConnectFailed(t)
  \/ \E t \in Tasks : ConnectNotAuthorized(t)
  \/ \E t \in Tasks : ConnectAuthorized(t)
  \/ \E t \in Tasks : ConnectCodeSent(t)
  \/ \E t \in Tasks : ConnectSendFailed(t)

\* ---------------------------------------------------- /api/verify-code
\* What client.invoke(new Api.auth.SignIn(...)) resolves or rejects with.
ResAuthorization == [msg |-> "-", code |-> 0, cls |-> "Authorization"]
ResSignUpRequired == [msg |-> "-", code |-> 0, cls |-> "AuthorizationSignUpRequired"]

\* The protocol layer: a sign-in is accepted only on a connection a code was
\* sent on; a connection waiting for the password keeps asking for it; an
\* authorized connection stays authorized; a closed connection only fails.
SignInResults(h) ==
  IF handles[h].conn # "live" THEN {ErrNetwork}
  ELSE CASE handles[h].st = "fresh" ->
              {ErrCodeInvalid, ErrCodeExpired, ErrPhoneInvalid, ErrFlood, ErrNetwork}
         [] handles[h].st = "codeSent" ->
              {ResAuthorization, ResSignUpRequired, ErrPasswordNeeded, ErrCodeInvalid,
               ErrCodeExpired, ErrPhoneInvalid, ErrFlood, ErrNetwork}
         [] handles[h].st = "pwNeeded" ->
              {ErrPasswordNeeded, ErrCodeInvalid, ErrCodeExpired, ErrFlood, ErrNetwork}
         [] OTHER ->
              {ResAuthorization, ErrCodeInvalid, ErrCodeExpired, ErrFlood, ErrNetwork}

\* The connection's protocol state after the call.
AfterCall(h, r) ==
  IF r = ResAuthorization THEN [handles EXCEPT ![h].st = "authorized"]
  ELSE IF r = ErrPasswordNeeded THEN [handles EXCEPT ![h].st = "pwNeeded"]
  ELSE handles

\* The first test of the catch block: a password is required.
isPasswordRequired(e) ==
  \/ includes(e.msg, "PASSWORD_REQUIRED")
  \/ includes(e.msg, "PASSWORD_HASH_INVALID")
  \/ includes(e.msg, "SESSION_PASSWORD_NEEDED")
  \/ e.code = 401
  \/ clsIncludes(e.cls, "Password")

\* The second test: the code is wrong or has expired.
isCodeError(e) ==
  \/ includes(e.msg, "PHONE_CODE_INVALID")
  \/ includes(e.msg, "PHONE_CODE_EXPIRED")
  \/ includes(e.msg, "PHONE_CODE_EMPTY")
  \/ includes(e.msg, "CODE_INVALID")
  \/ includes(e.msg, "CODE_EXPIRED")
  \/ e.code = 400
  \/ clsIncludes(e.cls, "PhoneCode")

\* The hash of the request is preferred: phoneCodeHash || savedHash
hashToUsePrefersRequest(savedHash, phoneCodeHash) ==
  IF phoneCodeHash # None THEN phoneCodeHash ELSE savedHash

\* hashToUse = savedHash || phoneCodeHash
hashToUse(savedHash, phoneCodeHash) ==
  IF savedHash # None THEN savedHash ELSE phoneCodeHash

\* The phoneCodeHash values a caller may put in the request.
RequestHashes(u) == {None, WrongHash} \cup {phoneCodeHashes[u]}

\* No client stored for the account: 400, nothing else happens.
VerifyCodeNoClient(u) ==
  /\ clients[u] = None
  /\ Answer("verify-code", u, "clientNotFound", None)
  /\ UNCHANGED <<clients, sessions, phoneCodeHashes, handles, nh, computeCheck>>

\* The stored client is used: SignIn is invoked on it and awaited.
VerifyCodeStart(t, u, phoneCodeHash) ==
  /\ HasFreeSlot /\ t = FreeSlot
  /\ clients[u] # None
  /\ handles[clients[u]].nhandlers < MaxAttach
  /\ Begin(t, u, "vc_signin", clients[u], hashToUse(phoneCodeHashes[u], phoneCodeHash))
  /\ Silent
  /\ UNCHANGED <<clients, sessions, phoneCodeHashes, handles, nh, computeCheck>>

\* Mutant: a successful sign-in leaves the pending hash in the map.
VerifyCodeSignedInKeepsHash(t) ==
  LET u == tasks[t].user
      client == tasks[t].client IN
  /\ tasks[t].pc = "vc_signin"
  /\ ResAuthorization \in SignInResults(client)
  /\ sessions' = saveSession(u, save(client))
  /\ clients' = [clients EXCEPT ![u] = client]
  /\ handles' = addEventHandler(AfterCall(client, ResAuthorization), client)
  /\ Respond(t, "verify-code", "connected", None)
  /\ UNCHANGED <<phoneCodeHashes, nh, computeCheck>>

\* SignIn resolves with an Authorization: the account is signed in.
VerifyCodeSignedIn(t) ==
  LET u == tasks[t].user
      client == tasks[t].client IN
  /\ tasks[t].pc = "vc_signin"
  /\ ResAuthorization \in SignInResults(client)
  /\ sessions' = saveSession(u, save(client))
  /\ phoneCodeHashes' = [phoneCodeHashes EXCEPT ![u] = None]
  /\ clients' = [clients EXCEPT ![u] = client]
  /\ handles' = addEventHandler(AfterCall(client, ResAuthorization), client)
  /\ Respond(t, "verify-code", "connected", None)
  /\ UNCHANGED <<nh, computeCheck>>

\* SignIn resolves with AuthorizationSignUpRequired.
VerifyCodeSignUp(t) ==
  /\ tasks[t].pc = "vc_signin"
  /\ ResSignUpRequired \in SignInResults(tasks[t].client)
  /\ Respond(t, "verify-code", "signUpRequired", None)
  /\ UNCHANGED <<clients, sessions, phoneCodeHashes, handles, nh, computeCheck>>

\* Mutant: the password-required branch drops the client instead of keeping it.
VerifyCodePasswordRequiredDropsClient(t, e) ==
  LET u == tasks[t].user
      client == tasks[t].client IN
  /\ tasks[t].pc = "vc_signin"
  /\ e \in SignInResults(client) \ {ResAuthorization, ResSignUpRequired}
  /\ isPasswordRequired(e)
  /\ clients' = [clients EXCEPT ![u] = None]
  /\ handles' = AfterCall(client, e)
  /\ Respond(t, "verify-code", "requiresPassword", None)
  /\ UNCHANGED <<sessions, phoneCodeHashes, nh, computeCheck>>

\* SignIn rejects with an error classified as "password required".
VerifyCodePasswordRequired(t, e) ==
  LET u == tasks[t].user
      client == tasks[t].client IN
  /\ tasks[t].pc = "vc_signin"
  /\ e \in SignInResults(client) \ {ResAuthorization, ResSignUpRequired}
  /\ isPasswordRequired(e)
  /\ clients' = [clients EXCEPT ![u] = client]
  /\ handles' = AfterCall(client, e)
  /\ Respond(t, "verify-code", "requiresPassword", None)
  /\ UNCHANGED <<sessions, phoneCodeHashes, nh, computeCheck>>

\* Mutant: the code-error branch drops the pending hash but keeps the client.
VerifyCodeCodeErrorKeepsClient(t, e) ==
  /\ tasks[t].pc = "vc_signin"
  /\ e \in SignInResults(tasks[t].client) \ {ResAuthorization, ResSignUpRequired}
  /\ ~isPasswordRequired(e)
  /\ isCodeError(e)
  /\ phoneCodeHashes' = [phoneCodeHashes EXCEPT ![tasks[t].user] = None]
  /\ handles' = AfterCall(tasks[t].client, e)
  /\ Respond(t, "verify-code", "codeError", None)
  /\ UNCHANGED <<clients, sessions, nh, computeCheck>>

\* SignIn rejects with an error classified as a code error: the pending hash
\* and the client are dropped from the maps.
VerifyCodeCodeError(t, e) ==
  LET u == tasks[t].user
      client == tasks[t].client IN
  /\ tasks[t].pc = "vc_signin"
  /\ e \in SignInResults(client) \ {ResAuthorization, ResSignUpRequired}
  /\ ~isPasswordRequired(e)
  /\ isCodeError(e)
  /\ phoneCodeHashes' = [phoneCodeHashes EXCEPT ![u] = None]
  /\ clients' = [clients EXCEPT ![u] = None]
  /\ handles' = AfterCall(client, e)
  /\ Respond(t, "verify-code", "codeError", None)
  /\ UNCHANGED <<sessions, nh, computeCheck>>

\* Mutant: an unclassified rejection clears the pending state like a code error.
VerifyCodeOtherErrorClears(t, e) ==
  /\ tasks[t].pc = "vc_signin"
  /\ e \in SignInResults(tasks[t].client) \ {ResAuthorization, ResSignUpRequired}
  /\ ~isPasswordRequired(e)
  /\ ~isCodeError(e)
  /\ phoneCodeHashes' = [phoneCodeHashes EXCEPT ![tasks[t].user] = None]
  /\ clients' = [clients EXCEPT ![tasks[t].user] = None]
  /\ handles' = AfterCall(tasks[t].client, e)
  /\ Respond(t, "verify-code", "error500", None)
  /\ UNCHANGED <<sessions, nh, computeCheck>>

\* Any other rejection: 500, the maps are left alone.
VerifyCodeOtherError(t, e) ==
  /\ tasks[t].pc = "vc_signin"
  /\ e \in SignInResults(tasks[t].client) \ {ResAuthorization, ResSignUpRequired}
  /\ ~isPasswordRequired(e)
  /\ ~isCodeError(e)
  /\ handles' = AfterCall(tasks[t].client, e)
  /\ Respond(t, "verify-code", "error500", None)
  /\ UNCHANGED <<clients, sessions, phoneCodeHashes, nh, computeCheck>>

SignInErrors ==
  {ErrPasswordNeeded, ErrCodeInvalid, ErrCodeExpired, ErrPhoneInvalid, ErrFlood, ErrNetwork}

VerifyCode(U) ==
  \/ \E u \in U : VerifyCodeNoClient(u)
  \/ \E t \in Tasks, u \in U : \E h \in RequestHashes(u) : VerifyCodeStart(t, u, h)
  \/ \E t \in Tasks : VerifyCodeSignedIn(t)
  \/ \E t \in Tasks : VerifyCodeSignUp(t)
  \/ \E t \in Tasks, e \in SignInErrors : VerifyCodePasswordRequired(t, e)
  \/ \E t \in Tasks, e \in SignInErrors : VerifyCodeCodeError(t, e)
  \/ \E t \in Tasks, e \in SignInErrors : VerifyCodeOtherError(t, e)

\* ------------------------------------------------ /api/verify-password
\* What client.invoke(new Api.auth.CheckPassword(...)) resolves or rejects
\* with: the password is checked only on a connection that asked for it.
CheckPasswordResults(h) ==
  IF handles[h].conn # "live" THEN {ErrNetwork}
  ELSE IF handles[h].st \in {"pwNeeded", "authorized"}
         THEN {ResAuthorization, ErrHashInvalid, ErrFlood, ErrNetwork}
         ELSE {ErrHashInvalid, ErrFlood, ErrNetwork}

CheckPasswordErrors == {ErrHashInvalid, ErrFlood, ErrNetwork}

\* A client is stored: GetPassword is invoked on it and awaited.
VerifyPasswordStart(t, u, missing) ==
  /\ HasFreeSlot /\ t = FreeSlot
  /\ clients[u] # None
  /\ handles[clients[u]].nhandlers < MaxAttach
  /\ BeginWith(t, u, "vp_getpw", clients[u], None, missing)
  /\ Silent
  /\ UNCHANGED <<clients, sessions, phoneCodeHashes, handles, nh, computeCheck>>

\* No client is stored: a new one is constructed and client.connect() awaited.
VerifyPasswordNoClient(t, u, missing) ==
  /\ HasFreeSlot /\ t = FreeSlot
  /\ clients[u] = None
  /\ nh < MaxHandles
  /\ nh' = nh + 1
  /\ handles' = Construct(u)
  /\ BeginWith(t, u, "vp_connect", NewClient, None, missing)
  /\ Silent
  /\ UNCHANGED <<clients, sessions, phoneCodeHashes, computeCheck>>

VerifyPasswordConnected(t) ==
  /\ tasks[t].pc = "vp_connect"
  /\ handles' = [handles EXCEPT ![tasks[t].client].conn = "live"]
  /\ Goto(t, "vp_getpw")
  /\ Silent
  /\ UNCHANGED <<clients, sessions, phoneCodeHashes, nh, computeCheck>>

VerifyPasswordConnectFailed(t) ==
  /\ tasks[t].pc = "vp_connect"
  /\ handles' = [handles EXCEPT ![tasks[t].client].conn = "closed"]
  /\ Respond(t, "verify-password", "error500", None)
  /\ UNCHANGED <<clients, sessions, phoneCodeHashes, nh, computeCheck>>

\* GetPassword resolves.  Without computeCheck the handler answers at once;
\* with it, computeCheck(passwordInfo, password) is awaited.
VerifyPasswordGotInfo(t) ==
  /\ tasks[t].pc = "vp_getpw"
  /\ handles[tasks[t].client].conn = "live"
  /\ IF ~computeCheck
       THEN Respond(t, "verify-password", "unavailable", None)
       ELSE Goto(t, "vp_compute") /\ Silent
  /\ UNCHANGED <<clients, sessions, phoneCodeHashes, handles, nh, computeCheck>>

\* GetPassword rejects: the outer catch answers 500.
VerifyPasswordGetFailed(t) ==
  /\ tasks[t].pc = "vp_getpw"
  /\ Respond(t, "verify-password", "error500", None)
  /\ UNCHANGED <<clients, sessions, phoneCodeHashes, handles, nh, computeCheck>>

\* computeCheck(passwordInfo, undefined) rejects: the outer catch answers 500.
VerifyPasswordComputeFailed(t) ==
  /\ tasks[t].pc = "vp_compute"
  /\ tasks[t].missing = "password"
  /\ Respond(t, "verify-password", "error500", None)
  /\ UNCHANGED <<clients, sessions, phoneCodeHashes, handles, nh, computeCheck>>

\* computeCheck resolves: CheckPassword is invoked and awaited.
VerifyPasswordComputed(t) ==
  /\ tasks[t].pc = "vp_compute"
  /\ tasks[t].missing # "password"
  /\ Goto(t, "vp_check")
  /\ Silent
  /\ UNCHANGED <<clients, sessions, phoneCodeHashes, handles, nh, computeCheck>>

\* CheckPassword resolves: the account is signed in.
VerifyPasswordAccepted(t) ==
  LET u == tasks[t].user
      client == tasks[t].client IN
  /\ tasks[t].pc = "vp_check"
  /\ ResAuthorization \in CheckPasswordResults(client)
  /\ sessions' = saveSession(u, save(client))
  /\ phoneCodeHashes' = [phoneCodeHashes EXCEPT ![u] = None]
  /\ clients' = [clients EXCEPT ![u] = client]
  /\ handles' = addEventHandler(AfterCall(client, ResAuthorization), client)
  /\ Respond(t, "verify-password", "connected", None)
  /\ UNCHANGED <<nh, computeCheck>>

\* Mutant: a wrong password clears the pending state like a wrong code does.
VerifyPasswordWrongClears(t, e) ==
  /\ tasks[t].pc = "vp_check"
  /\ e \in CheckPasswordResults(tasks[t].client) \ {ResAuthorization}
  /\ includes(e.msg, "PASSWORD_HASH_INVALID")
  /\ phoneCodeHashes' = [phoneCodeHashes EXCEPT ![tasks[t].user] = None]
  /\ clients' = [clients EXCEPT ![tasks[t].user] = None]
  /\ Respond(t, "verify-password", "wrongPassword", None)
  /\ UNCHANGED <<sessions, handles, nh, computeCheck>>

\* CheckPassword rejects with PASSWORD_HASH_INVALID: success:false, no change.
VerifyPasswordWrong(t, e) ==
  /\ tasks[t].pc = "vp_check"
  /\ e \in CheckPasswordResults(tasks[t].client) \ {ResAuthorization}
  /\ includes(e.msg, "PASSWORD_HASH_INVALID")
  /\ Respond(t, "verify-password", "wrongPassword", None)
  /\ UNCHANGED <<clients, sessions, phoneCodeHashes, handles, nh, computeCheck>>

\* Any other rejection is rethrown to the outer catch: 500.
VerifyPasswordOtherError(t, e) ==
  /\ tasks[t].pc = "vp_check"
  /\ e \in CheckPasswordResults(tasks[t].client) \ {ResAuthorization}
  /\ ~includes(e.msg, "PASSWORD_HASH_INVALID")
  /\ Respond(t, "verify-password", "error500", None)
  /\ UNCHANGED <<clients, sessions, phoneCodeHashes, handles, nh, computeCheck>>

VerifyPassword(U) ==
  \/ \E t \in Tasks, u \in U : VerifyPasswordStart(t, u, "-")
  \/ \E t \in Tasks, u \in U : VerifyPasswordNoClient(t, u, "-")
  \/ \E t \in Tasks : VerifyPasswordConnected(t)
  \/ \E t \in Tasks : VerifyPasswordConnectFailed(t)
  \/ \E t \in Tasks : VerifyPasswordGotInfo(t)
  \/ \E t \in Tasks : VerifyPasswordGetFailed(t)
  \/ \E t \in Tasks : VerifyPasswordComputed(t)
  \/ \E t \in Tasks : VerifyPasswordAccepted(t)
  \/ \E t \in Tasks, e \in CheckPasswordErrors : VerifyPasswordWrong(t, e)
  \/ \E t \in Tasks, e \in CheckPasswordErrors : VerifyPasswordOtherError(t, e)

\* ---------------------------------------------------- /api/disconnect
\* No client stored: the session and pending-hash maps are emptied.
DisconnectNoClientClearsAll(u) ==
  /\ clients[u] = None
  /\ sessions' = [v \in Accounts |-> None]
  /\ phoneCodeHashes' = [v \in Accounts |-> None]
  /\ Answer("disconnect", u, "disconnected", None)
  /\ UNCHANGED <<clients, handles, nh, computeCheck>>

\* No client stored: the session and the pending hash are deleted.
DisconnectNoClient(u) ==
  /\ clients[u] = None
  /\ sessions' = [sessions EXCEPT ![u] = None]
  /\ phoneCodeHashes' = [phoneCodeHashes EXCEPT ![u] = None]
  /\ Answer("disconnect", u, "disconnected", None)
  /\ UNCHANGED <<clients, handles, nh, computeCheck>>

\* A client is stored: client.disconnect() is awaited.
DisconnectStart(t, u) ==
  /\ HasFreeSlot /\ t = FreeSlot
  /\ clients[u] # None
  /\ Begin(t, u, "d_disc", clients[u], None)
  /\ Silent
  /\ UNCHANGED <<clients, sessions, phoneCodeHashes, handles, nh, computeCheck>>

\* Mutant: the deletes sit inside the try block, a throwing disconnect() skips them.
DisconnectFinishInsideTry(t, closed) ==
  LET u == tasks[t].user IN
  /\ tasks[t].pc = "d_disc"
  /\ handles' = IF closed THEN [handles EXCEPT ![tasks[t].client].conn = "closed"]
                ELSE handles
  /\ clients' = IF closed THEN [clients EXCEPT ![u] = None] ELSE clients
  /\ sessions' = IF closed THEN [sessions EXCEPT ![u] = None] ELSE sessions
  /\ phoneCodeHashes' = IF closed THEN [phoneCodeHashes EXCEPT ![u] = None]
                        ELSE phoneCodeHashes
  /\ Respond(t, "disconnect", "disconnected", None)
  /\ UNCHANGED <<nh, computeCheck>>

\* After the await, whether disconnect() resolved (closed = TRUE) or threw and
\* was logged: all three entries of the account are deleted.
DisconnectFinish(t, closed) ==
  LET u == tasks[t].user IN
  /\ tasks[t].pc = "d_disc"
  /\ handles' = IF closed THEN [handles EXCEPT ![tasks[t].client].conn = "closed"]
                ELSE handles
  /\ clients' = [clients EXCEPT ![u] = None]
  /\ sessions' = [sessions EXCEPT ![u] = None]
  /\ phoneCodeHashes' = [phoneCodeHashes EXCEPT ![u] = None]
  /\ Respond(t, "disconnect", "disconnected", None)
  /\ UNCHANGED <<nh, computeCheck>>

Disconnect(U) ==
  \/ \E u \in U : DisconnectNoClient(u)
  \/ \E t \in Tasks, u \in U : DisconnectStart(t, u)
  \/ \E t \in Tasks, closed \in BOOLEAN : DisconnectFinish(t, closed)

\* ---------------------------------------------------- /api/voice-reply
\* What client.getMessages(chatId, {ids: [messageId]}) gives: it needs an
\* open, authorized connection.
GetMessagesResults(h) ==
  IF handles[h].conn = "live" /\ handles[h].st = "authorized"
    THEN {"throws", "empty", "text", "voice"}
    ELSE {"throws"}

\* A client is stored: getMessages is called on it and awaited.
VoiceReplyStart(t, u, missing) ==
  /\ HasFreeSlot /\ t = FreeSlot
  /\ clients[u] # None
  /\ BeginWith(t, u, "vr_get", clients[u], None, missing)
  /\ Silent
  /\ UNCHANGED <<clients, sessions, phoneCodeHashes, handles, nh, computeCheck>>

\* No client is stored: one is constructed on the saved session string ('' if
\* there is none) and client.connect() awaited.
VoiceReplyReconnect(t, u, missing) ==
  /\ HasFreeSlot /\ t = FreeSlot
  /\ clients[u] = None
  /\ nh < MaxHandles
  /\ nh' = nh + 1
  /\ handles' = Construct(u)
  /\ BeginWith(t, u, "vr_connect", NewClient, getSavedSession(u), missing)
  /\ Silent
  /\ UNCHANGED <<clients, sessions, phoneCodeHashes, computeCheck>>

\* connect() resolves: the client is stored.  A connection opened on a saved
\* session string is authorized if that session is still valid.
VoiceReplyConnected(t, valid) ==
  LET u == tasks[t].user
      client == tasks[t].client IN
  /\ tasks[t].pc = "vr_connect"
  /\ valid => tasks[t].arg # None
  /\ handles' = [handles EXCEPT ![client].conn = "live",
                                ![client].st = IF valid THEN "authorized" ELSE "fresh"]
  /\ clients' = [clients EXCEPT ![u] = client]
  /\ Goto(t, "vr_get")
  /\ Silent
  /\ UNCHANGED <<sessions, phoneCodeHashes, nh, computeCheck>>

VoiceReplyConnectFailed(t) ==
  /\ tasks[t].pc = "vr_connect"
  /\ handles' = [handles EXCEPT ![tasks[t].client].conn = "closed"]
  /\ Respond(t, "voice-reply", "error500", None)
  /\ UNCHANGED <<clients, sessions, phoneCodeHashes, nh, computeCheck>>

\* The calls of /api/voice-reply that follow the voice test.
VoiceReplyPipelinePcs == {"vr_download", "vr_transcribe", "vr_send", "vr_forward"}

\* The voice test is made on the downloaded media instead: a message
\* without a voice attachment is downloaded too.
VoiceReplyGotNoVoiceTest(t, r) ==
  /\ tasks[t].pc = "vr_get"
  /\ r \in GetMessagesResults(tasks[t].client)
  /\ tasks[t].missing # "-" => r \in {"throws", "empty"}
  /\ CASE r = "throws" -> Respond(t, "voice-reply", "error500", None)
       [] r = "empty"  -> Respond(t, "voice-reply", "notFound", None)
       [] OTHER        -> /\ tasks' = [tasks EXCEPT ![t].pc = "vr_download",
                                                    ![t].target = r]
                          /\ nreq' = nreq
                          /\ Silent
  /\ UNCHANGED <<clients, sessions, phoneCodeHashes, handles, nh, computeCheck>>

\* getMessages returns: nothing found, not a voice message, or a voice
\* message, whose download is awaited; or it throws.  Called without the
\* chat or the message id, it finds no message.
VoiceReplyGot(t, r) ==
  /\ tasks[t].pc = "vr_get"
  /\ r \in GetMessagesResults(tasks[t].client)
  /\ tasks[t].missing # "-" => r \in {"throws", "empty"}
  /\ CASE r = "throws" -> Respond(t, "voice-reply", "error500", None)
       [] r = "empty"  -> Respond(t, "voice-reply", "notFound", None)
       [] r = "text"   -> Respond(t, "voice-reply", "notVoice", None)
       [] OTHER        -> /\ tasks' = [tasks EXCEPT ![t].pc = "vr_download",
                                                    ![t].target = r]
                          /\ nreq' = nreq
                          /\ Silent
  /\ UNCHANGED <<clients, sessions, phoneCodeHashes, handles, nh, computeCheck>>

\* The reply is sent as soon as the download is there, the transcription is
\* awaited after it.
VoiceReplyStepReplyFirst(t, ok) ==
  /\ tasks[t].pc \in {"vr_download", "vr_transcribe", "vr_send"}
  /\ IF ok
       THEN /\ Goto(t, CASE tasks[t].pc = "vr_download" -> "vr_send"
                         [] tasks[t].pc = "vr_send" -> "vr_transcribe"
                         [] OTHER -> "vr_forward")
            /\ Silent
       ELSE Respond(t, "voice-reply", "error500", None)
  /\ UNCHANGED <<clients, sessions, phoneCodeHashes, handles, nh, computeCheck>>

\* downloadMedia, transcribeAudio and sendMessage in turn: each resolves and
\* the next call is awaited, or throws and the outer catch answers 500.
VoiceReplyStep(t, ok) ==
  /\ tasks[t].pc \in {"vr_download", "vr_transcribe", "vr_send"}
  /\ IF ok
       THEN /\ Goto(t, CASE tasks[t].pc = "vr_download" -> "vr_transcribe"
                         [] tasks[t].pc = "vr_transcribe" -> "vr_send"
                         [] OTHER -> "vr_forward")
            /\ Silent
       ELSE Respond(t, "voice-reply", "error500", None)
  /\ UNCHANGED <<clients, sessions, phoneCodeHashes, handles, nh, computeCheck>>

\* sendToWorkers lets the failure of its POST out: the outer catch answers 500.
VoiceReplyForwardedRethrows(t, ok) ==
  /\ tasks[t].pc = "vr_forward"
  /\ Respond(t, "voice-reply", IF ok THEN "transcribed" ELSE "error500", None)
  /\ UNCHANGED <<clients, sessions, phoneCodeHashes, handles, nh, computeCheck>>

\* sendToWorkers returns, whether its POST succeeded (ok) or failed and was
\* logged: success is answered.
VoiceReplyForwarded(t, ok) ==
  /\ tasks[t].pc = "vr_forward"
  /\ Respond(t, "voice-reply", "transcribed", None)
  /\ UNCHANGED <<clients, sessions, phoneCodeHashes, handles, nh, computeCheck>>

\* The messages a /api/voice-reply request has sent into the conversation when
\* it answers r: its only sendMessage is the reply, sent once transcribeAudio
\* has resolved; the request then awaits sendToWorkers.
VoiceReplyPosted(r) == IF r.from = "vr_forward" THEN 1 ELSE 0

VoiceReply(U) ==
  \/ \E t \in Tasks, u \in U : VoiceReplyStart(t, u, "-")
  \/ \E t \in Tasks, u \in U : VoiceReplyReconnect(t, u, "-")
  \/ \E t \in Tasks, valid \in BOOLEAN : VoiceReplyConnected(t, valid)
  \/ \E t \in Tasks : VoiceReplyConnectFailed(t)
  \/ \E t \in Tasks, r \in {"throws", "empty", "text", "voice"} : VoiceReplyGot(t, r)
  \/ \E t \in Tasks, ok \in BOOLEAN : VoiceReplyStep(t, ok)
  \/ \E t \in Tasks, ok \in BOOLEAN : VoiceReplyForwarded(t, ok)

\* ------------------------------------------------- incoming messages
\* A message text is the sequence of its characters.  The Cyrillic command
\* '.гс' is written with the Latin letters g, s here, '.ГС' with G, S.
Whitespace == {" ", "\n"}

cmdGs    == <<".", "g", "s">>
cmdVoice == <<".", "v", "o", "i", "c", "e">>

\* The texts an incoming message may carry ('' when it has none).
Texts ==
  { cmdGs, cmdVoice,
    <<" ", ".", "g", "s", "\n">>,
    <<"h", "i", " ", ".", "g", "s">>,
    <<".", "G", "S">>,
    <<>> }

RECURSIVE trimStart(_)
trimStart(s) ==
  IF s # <<>> /\ Head(s) \in Whitespace THEN trimStart(Tail(s)) ELSE s

RECURSIVE trimEnd(_)
trimEnd(s) ==
  IF s # <<>> /\ s[Len(s)] \in Whitespace THEN trimEnd(SubSeq(s, 1, Len(s) - 1)) ELSE s

\* Only the whitespace in front of the text is removed.
trimFrontOnly(s) == trimStart(s)

\* String.prototype.trim()
trim(s) == trimEnd(trimStart(s))

\* String.prototype.includes(lit) on a text
textIncludes(s, lit) ==
  \E i \in 1..(Len(s) + 1) :
    i + Len(lit) - 1 <= Len(s) /\ SubSeq(s, i, i + Len(lit) - 1) = lit

\* Mutant: the command is looked for anywhere in the text.
isCommandAnywhere(text) ==
  textIncludes(text, cmdGs) \/ textIncludes(text, cmdVoice)

\* text.trim() === '.гс' || text.trim() === '.voice'
isCommand(text) == trim(text) = cmdGs \/ trim(text) = cmdVoice

\* The reply fields of a message.  An object field the message does not have
\* is written as Absent.
Absent == [present |-> FALSE, replyToMsgId |-> None, replyToTopId |-> None]

\* Not a reply; a reply seen through message.replyTo (to message 1, or with
\* only the top id, 2); a reply seen through message.replyToMsgId.
Messages ==
  { [replyTo |-> Absent, replyToMsgId |-> None, replyMarkup |-> Absent,
     patternMatch |-> Absent],
    [replyTo |-> [present |-> TRUE, replyToMsgId |-> 1, replyToTopId |-> None],
     replyToMsgId |-> None, replyMarkup |-> Absent, patternMatch |-> Absent],
    [replyTo |-> [present |-> TRUE, replyToMsgId |-> None, replyToTopId |-> 2],
     replyToMsgId |-> None, replyMarkup |-> Absent, patternMatch |-> Absent],
    [replyTo |-> Absent, replyToMsgId |-> 1, replyMarkup |-> Absent,
     patternMatch |-> Absent] }

\* a || b
OrElse(a, b) == IF a # None THEN a ELSE b

\* The replyToMsgId handleNewMessage resolves from the message (None: null).
ResolveReplyTo(m) ==
  LET v1 == IF m.replyTo.present
              THEN OrElse(m.replyTo.replyToMsgId, m.replyTo.replyToTopId) ELSE None
      v2 == IF v1 = None /\ m.replyToMsgId # None THEN m.replyToMsgId ELSE v1
      v3 == IF v2 = None /\ m.replyMarkup.present THEN m.replyMarkup.replyToMsgId ELSE v2
      v4 == IF v3 = None /\ m.patternMatch.present THEN m.patternMatch.replyToMsgId ELSE v3
  IN v4

\* An event being handled.  h: the client that received it; user: the userId
\* its handler closures captured; cmd: whether its text is the command;
\* reply: the replyToMsgId resolved from it; k: the handler whose callback is
\* in progress (0: all have returned); pc: the call that callback is suspended
\* at; client: the client that call was made on.  The counters: messages sent
\* (hints, replies, errs), pipeline invocations (runs), downloads and
\* transcriptions started (dls, trs), webhook calls made (hooks); failed: some
\* call of the event's callbacks threw; posted: the messages the latest
\* invocation of processVoiceCommand has sent.
NewEvent(h, text, m) ==
  [h |-> h, user |-> handles[h].owner, cmd |-> isCommand(text),
   reply |-> ResolveReplyTo(m), k |-> 0, pc |-> "-", client |-> None,
   hints |-> 0, replies |-> 0, errs |-> 0, runs |-> 0, dls |-> 0, trs |-> 0,
   hooks |-> 0, failed |-> FALSE, posted |-> 0]

PipelinePcs ==
  {"p_get", "p_notfound", "p_notvoice", "p_download", "p_transcribe", "p_send",
   "p_forward", "p_error"}

\* client.sendMessage: it needs an open, authorized connection.
SendMessageResults(h) ==
  IF handles[h].conn = "live" /\ handles[h].st = "authorized"
    THEN {TRUE, FALSE} ELSE {FALSE}

\* processVoiceCommand up to its first await: without a stored client it logs
\* and returns; otherwise getMessages is called on the stored client.
processVoiceCommand(e) ==
  LET client == clients[e.user] IN
  IF client = None
    THEN [e EXCEPT !.runs = @ + 1, !.posted = 0, !.pc = "return"]
    ELSE [e EXCEPT !.runs = @ + 1, !.posted = 0, !.pc = "p_get", !.client = client]

\* handleNewMessage up to its first await.  A text that is not the command:
\* return.  The command without a reply target: the hint is sent on the stored
\* client, if there is one.  The command as a reply: processVoiceCommand.
handleNewMessage(e) ==
  IF e.cmd
    THEN IF e.reply = None
           THEN IF clients[e.user] # None
                  THEN [e EXCEPT !.pc = "hint", !.client = clients[e.user]]
                  ELSE [e EXCEPT !.pc = "return"]
           ELSE processVoiceCommand(e)
    ELSE [e EXCEPT !.pc = "return"]

\* The client calls the handlers attached to it in turn, each with the event,
\* and awaits each callback: handler k is called, and when its callback has
\* returned, handler k + 1, as long as there is one.
RECURSIVE Dispatch(_, _)
Dispatch(e, k) ==
  IF k > handles[e.h].nhandlers THEN [e EXCEPT !.k = 0, !.pc = "-", !.client = None]
  ELSE LET r == handleNewMessage([e EXCEPT !.k = k, !.client = None])
       IN IF r.pc = "return" THEN Dispatch(r, k + 1) ELSE r

\* The callback in progress returns.
Returned(e) == Dispatch(e, e.k + 1)

\* The catch block of processVoiceCommand: the error text is sent on the
\* client stored now, if there is one.
Catch(e) ==
  LET client == clients[e.user] IN
  IF client # None
    THEN [e EXCEPT !.pc = "p_error", !.client = client, !.failed = TRUE]
    ELSE Returned([e EXCEPT !.failed = TRUE])

\* A step of the callback of event i: only the event record changes.
EventStep(i, e) ==
  /\ evs' = Pending(SubSeq(evs, 1, i - 1)) \o <<e>> \o Pending(SubSeq(evs, i + 1, Len(evs)))
  /\ delivered' = NoDelivery
  /\ resp' = NoResp
  /\ UNCHANGED <<clients, sessions, phoneCodeHashes, handles, nh, tasks, computeCheck,
                 lastCode, nreq>>

\* A NewMessage event arrives on an open, authorized client that has handlers.
NewMessageEvent(h, text, m) ==
  /\ nreq < MaxRequests
  /\ handles[h].conn = "live" /\ handles[h].st = "authorized"
  /\ handles[h].nhandlers >= 1
  /\ evs' = Append(Pending(evs), Dispatch(NewEvent(h, text, m), 1))
  /\ delivered' = [h |-> h, text |-> text, reply |-> ResolveReplyTo(m)]
  /\ nreq' = nreq + 1
  /\ resp' = NoResp
  /\ UNCHANGED <<clients, sessions, phoneCodeHashes, handles, nh, tasks, computeCheck,
                 lastCode>>

\* sendMessage of the hint resolves, or throws and is logged.
HintSent(i, ok) ==
  /\ evs[i].pc = "hint"
  /\ ok \in SendMessageResults(evs[i].client)
  /\ EventStep(i, Returned([evs[i] EXCEPT !.hints = IF ok THEN @ + 1 ELSE @,
                                          !.failed = @ \/ ~ok]))

\* getMessages returns or throws.
PipelineGot(i, r) ==
  /\ evs[i].pc = "p_get"
  /\ r \in GetMessagesResults(evs[i].client)
  /\ EventStep(i, CASE r = "throws" -> Catch(evs[i])
                    [] r = "empty"  -> [evs[i] EXCEPT !.pc = "p_notfound"]
                    [] r = "text"   -> [evs[i] EXCEPT !.pc = "p_notvoice"]
                    [] OTHER        -> [evs[i] EXCEPT !.pc = "p_download", !.dls = @ + 1])

\* sendMessage of "not found" / "not a voice message" resolves or throws.
PipelineNotice(i, ok) ==
  /\ evs[i].pc \in {"p_notfound", "p_notvoice"}
  /\ ok \in SendMessageResults(evs[i].client)
  /\ EventStep(i, IF ok THEN Returned([evs[i] EXCEPT !.errs = @ + 1, !.posted = @ + 1])
                  ELSE Catch(evs[i]))

\* downloadMedia resolves (the file is written, transcribeAudio posts it) or throws.
PipelineDownloaded(i, ok) ==
  /\ evs[i].pc = "p_download"
  /\ ok \in SendMessageResults(evs[i].client)
  /\ EventStep(i, IF ok THEN [evs[i] EXCEPT !.pc = "p_transcribe", !.trs = @ + 1]
                  ELSE Catch(evs[i]))

\* transcribeAudio resolves (the reply is sent) or throws.
PipelineTranscribed(i, ok) ==
  /\ evs[i].pc = "p_transcribe"
  /\ EventStep(i, IF ok THEN [evs[i] EXCEPT !.pc = "p_send"] ELSE Catch(evs[i]))

\* The reply is sent and the webhook call left out.
PipelineRepliedNoWebhook(i, ok) ==
  /\ evs[i].pc = "p_send"
  /\ ok \in SendMessageResults(evs[i].client)
  /\ EventStep(i, IF ok THEN [evs[i] EXCEPT !.pc = "p_forward", !.replies = @ + 1,
                                            !.posted = @ + 1]
                  ELSE Catch(evs[i]))

\* sendMessage of the transcription resolves (sendToWorkers posts to the
\* webhook) or throws.
PipelineReplied(i, ok) ==
  /\ evs[i].pc = "p_send"
  /\ ok \in SendMessageResults(evs[i].client)
  /\ EventStep(i, IF ok THEN [evs[i] EXCEPT !.pc = "p_forward", !.replies = @ + 1,
                                            !.hooks = @ + 1, !.posted = @ + 1]
                  ELSE Catch(evs[i]))

\* sendToWorkers lets the failure of its POST out, into the catch block of
\* processVoiceCommand.
PipelineForwardedRethrows(i, ok) ==
  /\ evs[i].pc = "p_forward"
  /\ EventStep(i, IF ok THEN Returned(evs[i]) ELSE Catch(evs[i]))

\* sendToWorkers returns, whether its POST succeeded or failed and was logged.
PipelineForwarded(i, ok) ==
  /\ evs[i].pc = "p_forward"
  /\ EventStep(i, Returned([evs[i] EXCEPT !.failed = @ \/ ~ok]))

\* sendMessage of the error text resolves, or throws and is ignored.
PipelineErrorSent(i, ok) ==
  /\ evs[i].pc = "p_error"
  /\ ok \in SendMessageResults(evs[i].client)
  /\ EventStep(i, Returned([evs[i] EXCEPT !.errs = IF ok THEN @ + 1 ELSE @,
                                          !.posted = IF ok THEN @ + 1 ELSE @]))

\* The message events of the accounts in U and their callbacks.
Events(U) ==
  \/ \E h \in Handles, text \in Texts, m \in Messages :
       handles[h].owner \in U /\ NewMessageEvent(h, text, m)
  \/ \E i \in DOMAIN evs, ok \in BOOLEAN : HintSent(i, ok)
  \/ \E i \in DOMAIN evs, r \in {"throws", "empty", "text", "voice"} : PipelineGot(i, r)
  \/ \E i \in DOMAIN evs, ok \in BOOLEAN : PipelineNotice(i, ok)
  \/ \E i \in DOMAIN evs, ok \in BOOLEAN : PipelineDownloaded(i, ok)
  \/ \E i \in DOMAIN evs, ok \in BOOLEAN : PipelineTranscribed(i, ok)
  \/ \E i \in DOMAIN evs, ok \in BOOLEAN : PipelineReplied(i, ok)
  \/ \E i \in DOMAIN evs, ok \in BOOLEAN : PipelineForwarded(i, ok)
  \/ \E i \in DOMAIN evs, ok \in BOOLEAN : PipelineErrorSent(i, ok)

\* The requests of the accounts in U, in any interleaving.
Requests(U) ==
  \/ Connect(U)
  \/ VerifyCode(U)
  \/ VerifyPassword(U)
  \/ Disconnect(U)
  \/ VoiceReply(U)

\* ------------------------------------------- the edge of the handlers
ApiEndpoints == {"connect", "verify-code", "verify-password", "disconnect", "voice-reply"}

\* checkAuth answers 401 to a request for /api/...: next() is not called.
Unauthorized(kind, u, authHeader) ==
  /\ nreq < MaxRequests /\ nreq' = nreq + 1
  /\ ~checkAuth(authHeader)
  /\ resp' = [NoResp EXCEPT !.kind = kind, !.user = u, !.out = "unauthorized",
                            !.auth = authHeader]
  /\ lastCode' = lastCode /\ evs' = Pending(evs) /\ delivered' = NoDelivery
  /\ UNCHANGED <<clients, sessions, phoneCodeHashes, handles, nh, tasks, computeCheck>>

\* GET /health: registered outside /api, answered whatever the header.
Health(authHeader) ==
  /\ nreq < MaxRequests /\ nreq' = nreq + 1
  /\ resp' = [NoResp EXCEPT !.kind = "health", !.out = "ok", !.auth = authHeader]
  /\ lastCode' = lastCode /\ evs' = Pending(evs) /\ delivered' = NoDelivery
  /\ UNCHANGED <<clients, sessions, phoneCodeHashes, handles, nh, tasks, computeCheck>>

\* /api/connect without phone, apiId or apiHash: 400.
ConnectMissingFields(u, field) ==
  /\ field \in {"phone", "apiId", "apiHash"}
  /\ AnswerWith("connect", u, "missingFields", None, field)
  /\ UNCHANGED <<clients, sessions, phoneCodeHashes, handles, nh, computeCheck>>

\* /api/disconnect without userId: 400.
DisconnectMissingUserId ==
  /\ nreq < MaxRequests /\ nreq' = nreq + 1
  /\ \E authHeader \in AuthHeaders :
       /\ checkAuth(authHeader)
       /\ resp' = [NoResp EXCEPT !.kind = "disconnect", !.out = "missingUserId",
                                 !.auth = authHeader, !.missing = "userId"]
  /\ lastCode' = lastCode /\ evs' = Pending(evs) /\ delivered' = NoDelivery
  /\ UNCHANGED <<clients, sessions, phoneCodeHashes, handles, nh, tasks, computeCheck>>

\* /api/verify-code without code: with no client stored, 400 as ever; with
\* one, code.length throws before SignIn is invoked and the outer catch
\* answers 500.
VerifyCodeMissingCode(u) ==
  /\ AnswerWith("verify-code", u,
                IF clients[u] = None THEN "clientNotFound" ELSE "error500", None, "code")
  /\ UNCHANGED <<clients, sessions, phoneCodeHashes, handles, nh, computeCheck>>

\* The requests that checkAuth or a handler's validation has to deal with:
\* wrong or missing token, missing fields.  /api/verify-password and
\* /api/voice-reply validate nothing and run as with a complete body.
Boundary(U) ==
  \/ \E kind \in ApiEndpoints, u \in U, authHeader \in AuthHeaders :
       Unauthorized(kind, u, authHeader)
  \/ \E authHeader \in AuthHeaders : Health(authHeader)
  \/ \E u \in U, field \in {"phone", "apiId", "apiHash"} : ConnectMissingFields(u, field)
  \/ DisconnectMissingUserId
  \/ \E u \in U : VerifyCodeMissingCode(u)
  \/ \E t \in Tasks, u \in U : VerifyPasswordStart(t, u, "password")
  \/ \E t \in Tasks, u \in U : VerifyPasswordNoClient(t, u, "password")
  \/ \E t \in Tasks : VerifyPasswordComputeFailed(t)
  \/ \E t \in Tasks, u \in U : VoiceReplyStart(t, u, "messageId")
  \/ \E t \in Tasks, u \in U : VoiceReplyReconnect(t, u, "messageId")

\* One account, its requests interleaved at every await.
Next == Requests({"a"})

Spec == Init /\ [][Next]_vars

\* One account: its requests, and the message events its clients receive.
\* The callbacks of the events read the client map but write none of the
\* maps, clients or requests, so Spec covers the handlers' side of every run.
NextEvents == Requests({"a"}) \/ Events({"a"})

SpecEvents == Init /\ [][NextEvents]_vars

\* One account: its requests, among them the ones without the token or
\* without a field.
NextBoundary == Requests({"a"}) \/ Boundary({"a"})

SpecBoundary == Init /\ [][NextBoundary]_vars

\* Two accounts: the requests and message events of account a, in any
\* interleaving with the connect and disconnect requests of account b, which
\* fill and empty the entries of b in the three maps.
NextAccounts ==
  \/ Requests({"a"})
  \/ Events({"a"})
  \/ Connect({"b"})
  \/ Disconnect({"b"})

SpecAccounts == Init /\ [][NextAccounts]_vars



\* ------------------------------------------------------ account state
\* The state of the account session (NoClient, CodeSent, PasswordRequired,
\* Authenticated) as the stored client shows it; "Connected" is a stored
\* client no code was sent on.
AccountState(u) ==
  IF clients[u] = None THEN "NoClient"
  ELSE CASE handles[clients[u]].st = "authorized" -> "Authenticated"
         [] handles[clients[u]].st = "pwNeeded"   -> "PasswordRequired"
         [] handles[clients[u]].st = "codeSent"   -> "CodeSent"
         [] OTHER                                 -> "Connected"

\* ================================================================ claims

\* C1: a connect that follows a connect answered requiresCode, with no other
\* request for the account in between or beside it, and whose connection is
\* not authorized, answers the same phoneCodeHash, calls no sendCode and
\* leaves the stored client and pending hash as they were.
C1_RepeatedConnectReusesHash ==
  [][(/\ resp'.kind = "connect"
      /\ resp'.solo
      /\ resp'.prev # None
      /\ resp'.out \notin {"connected", "error500"})
     => /\ resp'.out = "requiresCode"
        /\ resp'.hash = resp'.prev
        /\ ~resp'.sent
        /\ clients' = clients
        /\ phoneCodeHashes' = phoneCodeHashes]_vars

\* A second connect in a row has just answered the hash of the first.
C1_Witness ==
  /\ resp.kind = "connect" /\ resp.out = "requiresCode"
  /\ resp.solo /\ resp.prev # None /\ resp.hash = resp.prev /\ ~resp.sent
  /\ resp.client # clients[resp.user]

\* C2: when verify-code answers requiresPassword:true a pending hash is stored
\* for the account; when it answers connected:true none is stored.
C2_PendingHashAtResponse ==
  /\ (resp.kind = "verify-code" /\ resp.out = "requiresPassword"
        => phoneCodeHashes[resp.user] # None)
  /\ (resp.kind = "verify-code" /\ resp.out = "connected"
        => phoneCodeHashes[resp.user] = None)

\* C3: when verify-code answers the invalid/expired-code failure, the account
\* has neither a pending hash nor a stored client, and the step right after
\* that answer starts no SignIn for the account.
C3_CodeErrorClearsState ==
  [][/\ (resp'.kind = "verify-code" /\ resp'.out = "codeError")
          => /\ clients'[resp'.user] = None
             /\ phoneCodeHashes'[resp'.user] = None
     /\ (resp.kind = "verify-code" /\ resp.out = "codeError")
          => \A t \in Tasks :
               (tasks'[t].pc = "vc_signin" /\ tasks'[t].user = resp.user)
                 => tasks[t].pc = "vc_signin"]_vars

\* verify-code has just failed on a wrong code for an account that had a
\* pending hash and a stored client.
C3_Witness ==
  /\ resp.kind = "verify-code" /\ resp.out = "codeError"
  /\ resp.prev # None /\ resp.client # None
  /\ clients[resp.user] = None /\ phoneCodeHashes[resp.user] = None

\* C4: a verify-password answered "wrong password" changes nothing: the stored
\* client, its protocol state, the pending hash and the saved session are as
\* before, so the account is still in PasswordRequired on the same client.
C4_WrongPasswordKeepsState ==
  [][(resp'.kind = "verify-password" /\ resp'.out = "wrongPassword")
     => /\ clients' = clients
        /\ sessions' = sessions
        /\ phoneCodeHashes' = phoneCodeHashes
        /\ handles' = handles]_vars

\* A wrong password was just answered for an account in PasswordRequired.
C4_Witness ==
  /\ resp.kind = "verify-password" /\ resp.out = "wrongPassword"
  /\ AccountState(resp.user) = "PasswordRequired"
  /\ clients[resp.user] = resp.client
  /\ phoneCodeHashes[resp.user] # None

\* C5: when disconnect has answered disconnected:true and no other request of
\* the account is in flight, the account has no client, no saved session and
\* no pending hash.
C5_DisconnectClearsAccount ==
  (resp.kind = "disconnect" /\ resp.out = "disconnected" /\ InFlight(resp.user) = {})
    => /\ clients[resp.user] = None
       /\ sessions[resp.user] = None
       /\ phoneCodeHashes[resp.user] = None

\* disconnect has just answered for an authenticated account whose
\* client.disconnect() threw (the connection is still open).
C5_Witness ==
  /\ resp.kind = "disconnect" /\ resp.out = "disconnected"
  /\ InFlight(resp.user) = {}
  /\ resp.client # None
  /\ handles[resp.client].st = "authorized"
  /\ handles[resp.client].conn = "live"

\* C6: every answer connected:true (connect already authorized, verify-code
\* accepted, verify-password accepted) leaves a saved session and no pending
\* hash for the account.
C6_AuthenticatedClearsPending ==
  resp.out = "connected"
    => /\ sessions[resp.user] # None
       /\ phoneCodeHashes[resp.user] = None

\* C7: a pending hash is stored exactly when the account is in CodeSent or
\* PasswordRequired.
C7_PendingIffCodeSentOrPassword ==
  \A u \in Accounts :
    phoneCodeHashes[u] # None <=> AccountState(u) \in {"CodeSent", "PasswordRequired"}

\* C8: no client has the message handler attached more than once.
C8_HandlerAttachedOnce ==
  \A h \in Handles : handles[h].nhandlers <= 1

\* C9: every stored client that is authorized has the message handler attached.
C9_StoredAuthorizedHasHandler ==
  \A u \in Accounts :
    (clients[u] # None /\ handles[clients[u]].st = "authorized")
      => handles[clients[u]].nhandlers >= 1

\* C10: when no request is in flight, every open connection is the stored
\* client of an account (so an account has at most one).
C10_LiveHandlesAreStored ==
  (\A u \in Accounts : InFlight(u) = {})
    => \A h \in Handles :
         handles[h].conn = "live" => \E u \in Accounts : clients[u] = h

\* C11: a verify-code or verify-password answered with the generic error
\* (HTTP 500) leaves the client map, the session map and the pending-hash
\* map as they were.
C11_GenericErrorKeepsStore ==
  [][(resp'.kind \in {"verify-code", "verify-password"} /\ resp'.out = "error500")
     => store' = store]_vars

\* verify-code has just answered 500 for an account that has a stored client
\* and a pending hash.
C11_Witness ==
  /\ resp.kind = "verify-code" /\ resp.out = "error500"
  /\ clients[resp.user] = resp.client /\ resp.client # None
  /\ phoneCodeHashes[resp.user] # None

\* C12: when verify-code answers the invalid/expired-code failure, the client
\* the request used is disconnected and the account has no saved session.
C12_CodeErrorDestroysRecord ==
  (resp.kind = "verify-code" /\ resp.out = "codeError")
    => /\ handles[resp.client].conn # "live"
       /\ sessions[resp.user] = None

\* C13: the step of /api/connect in which checkAuthorization() reports the
\* new connection as authorized answers connected:true, has called no
\* sendCode, stores that client for the account and saves its session string.
C13_AuthorizedConnectStoresClient ==
  [][\A t \in Tasks :
       (/\ tasks[t].pc = "c_check" /\ tasks'[t].pc # "c_check"
        /\ handles'[tasks[t].client].st = "authorized")
         => /\ resp'.kind = "connect" /\ resp'.out = "connected"
            /\ resp'.user = tasks[t].user /\ resp'.client = tasks[t].client
            /\ ~resp'.sent
            /\ clients'[tasks[t].user] = tasks[t].client
            /\ sessions'[tasks[t].user] = save(tasks[t].client)]_vars

\* connect has just answered connected:true on a connection found authorized.
C13_Witness ==
  /\ resp.kind = "connect" /\ resp.out = "connected" /\ ~resp.sent
  /\ handles[resp.client].st = "authorized"
  /\ clients[resp.user] = resp.client
  /\ sessions[resp.user] = save(resp.client)

\* C14: /api/connect constructs its client on the session string saved for
\* the account (the empty string only when none is saved).
C14_ConnectUsesSavedSession ==
  [][\A t \in Tasks :
       (tasks[t].pc = "idle" /\ tasks'[t].pc = "c_connect")
         => tasks'[t].arg = getSavedSession(tasks'[t].user)]_vars

\* C15: a connect of an account without client and pending hash that answers
\* requiresCode has called sendCode and stored its client and the hash it
\* answers; a verify-code that follows that answer with no other request of
\* the account in between or beside it, and answers connected:true, leaves the
\* client that sent the code stored and authorized, its session string saved,
\* no pending hash, and the message handler attached to that client.
C15_ConnectThenVerifyCode ==
  [][/\ (/\ resp'.kind = "connect" /\ resp'.out = "requiresCode"
          /\ clients[resp'.user] = None /\ phoneCodeHashes[resp'.user] = None)
         => /\ resp'.sent
            /\ clients'[resp'.user] = resp'.client
            /\ phoneCodeHashes'[resp'.user] = resp'.hash
            /\ resp'.hash # None
     /\ (/\ resp'.kind = "verify-code" /\ resp'.out = "connected"
          /\ resp'.solo /\ resp'.prev # None)
         => /\ phoneCodeHashes[resp'.user] = resp'.prev
            /\ clients[resp'.user] = resp'.client
            /\ clients'[resp'.user] = resp'.client
            /\ handles'[resp'.client].st = "authorized"
            /\ sessions'[resp'.user] = save(resp'.client)
            /\ phoneCodeHashes'[resp'.user] = None
            /\ handles'[resp'.client].nhandlers >= 1]_vars

\* The account's first two requests were a connect answered requiresCode and
\* a verify-code that has just answered connected:true on the same client.
C15_Witness ==
  /\ resp.kind = "verify-code" /\ resp.out = "connected"
  /\ resp.solo /\ resp.prev = resp.client /\ nreq = 2
  /\ clients[resp.user] = resp.client
  /\ sessions[resp.user] # None /\ phoneCodeHashes[resp.user] = None
  /\ handles[resp.client].nhandlers = 1

\* C16: a verify-code that follows a requiresCode answer with no other request
\* of the account in between or beside it, and answers requiresPassword:true,
\* leaves the client it ran on stored, waiting for the password, and the
\* pending hash in place.  When the first three requests of a run end with
\* verify-password answering connected:true for an account in PasswordRequired
\* with a pending hash, that request ran on the client that sent the code,
\* and leaves it stored and authorized, its session saved, no pending hash and
\* the message handler attached.
C16_TwoFactorFlow ==
  [][/\ (/\ resp'.kind = "verify-code" /\ resp'.out = "requiresPassword"
          /\ resp'.solo /\ resp'.prev # None)
         => /\ clients[resp'.user] = resp'.client
            /\ clients'[resp'.user] = resp'.client
            /\ phoneCodeHashes'[resp'.user] = resp'.prev
            /\ handles'[resp'.client].st = "pwNeeded"
     /\ (/\ resp'.kind = "verify-password" /\ resp'.out = "connected"
          /\ nreq' = 3
          /\ AccountState(resp'.user) = "PasswordRequired"
          /\ phoneCodeHashes[resp'.user] # None)
         => /\ resp'.client = phoneCodeHashes[resp'.user]
            /\ clients'[resp'.user] = resp'.client
            /\ handles'[resp'.client].st = "authorized"
            /\ sessions'[resp'.user] = save(resp'.client)
            /\ phoneCodeHashes'[resp'.user] = None
            /\ handles'[resp'.client].nhandlers >= 1]_vars

\* connect, verify-code and verify-password were the three requests of the
\* run; verify-password has just answered connected:true on the client whose
\* only handler it attached.
C16_Witness ==
  /\ resp.kind = "verify-password" /\ resp.out = "connected" /\ nreq = 3
  /\ clients[resp.user] = resp.client
  /\ handles[resp.client].st = "authorized"
  /\ handles[resp.client].nhandlers = 1
  /\ sessions[resp.user] = save(resp.client)
  /\ phoneCodeHashes[resp.user] = None

\* C17: an event whose text, trimmed, is neither '.гс' nor '.voice' (a text
\* that only contains the command, the command in another case, no text) is
\* finished in the step that delivers it: no message sent, no pipeline run,
\* no download, no transcription, no webhook call, and the maps, the clients
\* and the requests in flight are as before.
C17_OtherTextIgnored ==
  [][(delivered'.h # None /\ trim(delivered'.text) \notin {cmdGs, cmdVoice})
     => /\ LET e == evs'[Len(evs')] IN
             /\ e.h = delivered'.h /\ e.k = 0
             /\ e.hints = 0 /\ e.replies = 0 /\ e.errs = 0
             /\ e.runs = 0 /\ e.dls = 0 /\ e.trs = 0 /\ e.hooks = 0
        /\ store' = store /\ handles' = handles /\ tasks' = tasks]_vars

\* A text that contains the command after other words was just delivered,
\* as a reply, to the stored client of an authenticated account.
C17_Witness ==
  /\ delivered.h # None /\ delivered.text = <<"h", "i", " ", ".", "g", "s">>
  /\ delivered.reply # None
  /\ clients[handles[delivered.h].owner] = delivered.h
  /\ evs[Len(evs)].k = 0 /\ evs[Len(evs)].runs = 0

\* C18: when the callbacks of a command event that is not a reply have all
\* returned and no call threw, exactly one hint was sent, no webhook call was
\* made and processVoiceCommand was not invoked.
C18_OneHintNoPipeline ==
  \A i \in DOMAIN evs :
    (evs[i].k = 0 /\ evs[i].cmd /\ evs[i].reply = None /\ ~evs[i].failed)
      => evs[i].hints = 1 /\ evs[i].hooks = 0 /\ evs[i].runs = 0

\* C19: when the callbacks of a command event that replies to a message have
\* all returned, no call threw and the account is authenticated, the
\* transcription was posted exactly once and exactly one webhook call was made.
C19_OneReplyOneWebhook ==
  \A i \in DOMAIN evs :
    (/\ evs[i].k = 0 /\ evs[i].cmd /\ evs[i].reply # None /\ ~evs[i].failed
     /\ evs[i].dls >= 1 /\ evs[i].trs >= 1
     /\ AccountState(evs[i].user) = "Authenticated")
      => evs[i].replies = 1 /\ evs[i].hooks = 1

\* C20: while the pipeline of an event is suspended at one of its calls, the
\* handler callback that started it has already returned.
C20_CallbackDoesNotWait ==
  \A i \in DOMAIN evs : evs[i].pc \in PipelinePcs => evs[i].k = 0

\* C21: a /api/voice-reply request whose target message has no voice
\* attachment answers "not a voice message" straight after getMessages: no
\* request awaiting the download, the transcription, the reply or the webhook
\* call holds such a target, and the answer changes no store entry.
C21_NotVoiceStopsPipeline ==
  [][/\ \A t \in Tasks :
          tasks'[t].pc \in VoiceReplyPipelinePcs => tasks'[t].target = "voice"
     /\ (resp'.kind = "voice-reply" /\ resp'.out = "notVoice")
          => resp'.from = "vr_get" /\ store' = store]_vars

C21_Witness ==
  /\ resp.kind = "voice-reply" /\ resp.out = "notVoice" /\ resp.from = "vr_get"
  /\ clients[resp.user] = resp.client
  /\ handles[resp.client].st = "authorized"

\* C22: a failed webhook POST fails nothing.  A /api/voice-reply request that
\* was awaiting sendToWorkers answers with the transcription; and when
\* sendToWorkers returns in processVoiceCommand, the reply has been sent, the
\* invocation is over, no error message is posted and no further webhook call
\* is made.
C22_WebhookFailureFailsNothing ==
  [][/\ (resp'.kind = "voice-reply" /\ resp'.from = "vr_forward")
          => resp'.out = "transcribed"
     /\ \A i \in DOMAIN evs :
          LET j == Len(Pending(SubSeq(evs, 1, i - 1))) + 1 IN
          (evs[i].pc = "p_forward" /\ evs'[j] # evs[i])
            => /\ evs[i].replies >= 1
               /\ evs'[j].replies = evs[i].replies
               /\ evs'[j].errs = evs[i].errs
               /\ evs'[j].hooks = evs[i].hooks
               /\ evs'[j].pc \notin {"p_forward", "p_error"}]_vars

\* The webhook call of the only invocation has failed: the reply is posted,
\* no error message is.
C22_Witness ==
  \E i \in DOMAIN evs :
    /\ evs[i].k = 0 /\ evs[i].failed
    /\ evs[i].runs = 1 /\ evs[i].replies = 1 /\ evs[i].hooks = 1 /\ evs[i].errs = 0

\* C23: every failure of the pipeline before the reply (message not found,
\* not a voice message, download failed, transcription failed) posts one error
\* message into the conversation, for a /api/voice-reply request and for an
\* invocation of processVoiceCommand alike.
C23_FailurePostsOneMessage ==
  /\ (/\ resp.kind = "voice-reply"
      /\ \/ resp.out \in {"notFound", "notVoice"}
         \/ resp.out = "error500" /\ resp.from \in {"vr_get", "vr_download", "vr_transcribe"})
       => VoiceReplyPosted(resp) = 1
  /\ \A i \in DOMAIN evs :
       (evs[i].k = 0 /\ evs[i].runs = 1 /\ evs[i].replies = 0)
         => evs[i].errs = 1

\* C24: a request for /api/... whose Authorization header is missing or is not
\* the expected bearer string is answered 401 and nothing else happens: no map
\* entry, client or request in flight changes, and every request a handler is
\* running for carried the expected header.  /health is answered whatever the
\* header.
C24_NoTokenNoHandler ==
  [][/\ \A t \in Tasks : tasks'[t].pc # "idle" => tasks'[t].auth = expectedAuth
     /\ (resp'.kind \in ApiEndpoints /\ resp'.auth # expectedAuth)
          => /\ resp'.out = "unauthorized"
             /\ store' = store /\ handles' = handles /\ nh' = nh /\ tasks' = tasks
     /\ (resp'.kind \in ApiEndpoints /\ resp'.out = "unauthorized")
          => resp'.auth # expectedAuth
     /\ resp'.kind = "health" => resp'.out = "ok"]_vars

\* A request without the header is turned away while a client is stored and
\* another request is in flight.
C24_Witness ==
  /\ resp.kind \in ApiEndpoints /\ resp.out = "unauthorized" /\ resp.auth = ""
  /\ clients[resp.user] # None
  /\ InFlight(resp.user) # {}

\* C25: a request that lacks a required field of its endpoint is answered with
\* a 4xx status before any call is awaited and without a change to the maps:
\* no request in flight lacks a field.
C25_MissingFieldRejected ==
  [][/\ \A t \in Tasks : tasks'[t].pc # "idle" => tasks'[t].missing = "-"
     /\ resp'.missing # "-"
          => /\ resp'.out \in {"missingFields", "missingUserId", "clientNotFound"}
             /\ resp'.from = "-"
             /\ store' = store /\ handles' = handles]_vars

\* C26: a verify-code, verify-password or voice-reply request for an account
\* without a stored client is answered "client not found" in the step that
\* receives it: none of them starts awaiting a call for such an account, and
\* none constructs a client.
C26_NoClientNoCall ==
  [][\A t \in Tasks :
       (/\ tasks[t].pc = "idle"
        /\ tasks'[t].pc \in {"vc_signin", "vp_getpw", "vp_connect", "vr_get", "vr_connect"})
         => /\ clients[tasks'[t].user] # None
            /\ nh' = nh]_vars

\* C27: the three maps are written by the connect, verify-code,
\* verify-password and disconnect handlers only: a step of a /api/voice-reply
\* request, and a step of handleNewMessage or processVoiceCommand, leaves all
\* three unchanged.
C27_VoiceAndEventsLeaveStore ==
  [][(\/ \E t \in Tasks :
          /\ tasks'[t].pc # tasks[t].pc
          /\ \/ tasks[t].pc \in {"vr_connect", "vr_get"} \cup VoiceReplyPipelinePcs
             \/ tasks'[t].pc \in {"vr_connect", "vr_get"} \cup VoiceReplyPipelinePcs
      \/ resp' = NoResp /\ tasks' = tasks)
       => store' = store]_vars

\* C28: the pipeline invocations of two command events of one account run
\* interleaved, and each keeps its own count: an event has as many webhook
\* calls as replies, never more replies than invocations, and when its
\* callbacks have returned, no call threw and every invocation got a voice
\* message, every invocation has posted its reply and made its webhook call.
C28_EachInvocationItsOwnReply ==
  \A i \in DOMAIN evs :
    /\ evs[i].hooks = evs[i].replies
    /\ evs[i].replies <= evs[i].runs
    /\ (evs[i].k = 0 /\ ~evs[i].failed /\ evs[i].runs >= 1 /\ evs[i].dls = evs[i].runs)
         => evs[i].replies = evs[i].runs

\* The second event, a reply to another message, has been through its whole
\* pipeline while the first still awaits its download or transcription.
C28_Witness ==
  /\ Len(evs) = 2
  /\ evs[1].user = evs[2].user /\ evs[1].reply # evs[2].reply
  /\ evs[1].pc \in {"p_download", "p_transcribe"} /\ evs[1].replies = 0
  /\ evs[2].k = 0 /\ ~evs[2].failed
  /\ evs[2].runs = 1 /\ evs[2].dls = 1 /\ evs[2].replies = 1 /\ evs[2].hooks = 1

\* C29: however the /api/connect requests of an account that is not
\* authorized interleave, one code is sent at most and all answer the hash
\* that is stored: a connect request that answers "requires code" while a hash
\* is pending has sent no code of its own and returns the pending hash.
C29_ConcurrentConnectsOneCode ==
  [][(/\ resp'.kind = "connect" /\ resp'.out = "requiresCode"
      /\ phoneCodeHashes[resp'.user] # None)
       => /\ ~resp'.sent
          /\ resp'.hash = phoneCodeHashes[resp'.user]
          /\ phoneCodeHashes' = phoneCodeHashes]_vars

\* C30: a connect, verify-code or verify-password request that was suspended
\* at a call when /api/disconnect answered puts nothing back: when such a
\* request of the account takes its next step right after the answer, the
\* account's entries in the three maps stay empty.
C30_DisconnectIsFinal ==
  [][(/\ resp.kind = "disconnect" /\ resp.out = "disconnected"
      /\ \E t \in Tasks :
           /\ tasks[t].user = resp.user
           /\ tasks[t].pc \in {"c_connect", "c_check", "c_send", "vc_signin",
                                "vp_connect", "vp_getpw", "vp_compute", "vp_check"}
           /\ tasks'[t].pc # tasks[t].pc)
       => /\ clients'[resp.user] = None
          /\ sessions'[resp.user] = None
          /\ phoneCodeHashes'[resp.user] = None]_vars

\* C31: an account whose stored client is authenticated leaves that state by
\* the answer of a disconnect only: no other step replaces or removes the
\* stored client, starts a sendCode for the account or stores a pending hash.
C31_AuthenticatedUntilDisconnect ==
  [][\A u \in Accounts :
       (AccountState(u) = "Authenticated"
        /\ ~(resp'.kind = "disconnect" /\ resp'.user = u))
         => /\ clients'[u] # None
            /\ handles'[clients'[u]].st = "authorized"
            /\ phoneCodeHashes'[u] \in {None, phoneCodeHashes[u]}
            /\ \A t \in Tasks :
                 (tasks'[t].user = u /\ tasks'[t].pc = "c_send") => tasks[t].pc = "c_send"]_vars

\* C32: verify-password makes an account authenticated from PasswordRequired
\* only: when it answers connected, the client it stores is the one that was
\* stored for the account before the answer, and that client had been asked
\* for the password (or was authenticated already); otherwise it answers no
\* connected and stores no client or session.
C32_PasswordOnlyFromPasswordRequired ==
  [][(resp'.kind = "verify-password" /\ resp'.out = "connected")
       => /\ clients[resp'.user] = resp'.client
          /\ AccountState(resp'.user) \in {"PasswordRequired", "Authenticated"}]_vars

\* C33: the calls of one pipeline invocation come in one order, in
\* /api/voice-reply and in processVoiceCommand alike: the transcription is
\* awaited only from the download of a message found to be a voice message,
\* the reply only from a transcription that resolved, the webhook call only
\* from a reply that was sent; an event never has more webhook calls than
\* replies, replies than transcriptions, transcriptions than downloads.
C33_PipelineOrder ==
  [][/\ \A t \in Tasks :
          tasks'[t].pc # tasks[t].pc
            => /\ tasks'[t].pc = "vr_download" => tasks[t].pc = "vr_get"
               /\ tasks'[t].pc = "vr_transcribe"
                    => tasks[t].pc = "vr_download" /\ tasks[t].target = "voice"
               /\ tasks'[t].pc = "vr_send" => tasks[t].pc = "vr_transcribe"
               /\ tasks'[t].pc = "vr_forward" => tasks[t].pc = "vr_send"
     /\ \A i \in DOMAIN evs :
          LET j == Len(Pending(SubSeq(evs, 1, i - 1))) + 1 IN
          (evs[i].k # 0 /\ evs'[j].pc # evs[i].pc)
            => /\ evs'[j].pc = "p_download" => evs[i].pc = "p_get"
               /\ evs'[j].pc = "p_transcribe" => evs[i].pc = "p_download"
               /\ evs'[j].pc = "p_send" => evs[i].pc = "p_transcribe"
               /\ evs'[j].pc = "p_forward" => evs[i].pc = "p_send"
     /\ \A j \in DOMAIN evs' :
          /\ evs'[j].hooks <= evs'[j].replies
          /\ evs'[j].replies <= evs'[j].trs
          /\ evs'[j].trs <= evs'[j].dls
          /\ evs'[j].dls <= evs'[j].runs]_vars

\* A request and an event of the account have both reached their webhook
\* call.
C33_Witness ==
  /\ \E t \in Tasks : tasks[t].pc = "vr_forward" /\ tasks[t].target = "voice"
  /\ \E i \in DOMAIN evs :
       /\ evs[i].pc = "p_forward"
       /\ evs[i].dls = 1 /\ evs[i].trs = 1 /\ evs[i].replies = 1 /\ evs[i].hooks = 1

\* C34: in every state, an account with a pending phone-code hash has a
\* client stored.
C34_PendingHashHasClient ==
  \A u \in Accounts : phoneCodeHashes[u] # None => clients[u] # None

\* A hash is pending while the stored client is another one than the client
\* that sent the code, and a request of the account is in flight.
C34_Witness ==
  \E u \in Accounts :
    /\ phoneCodeHashes[u] # None /\ clients[u] # None
    /\ clients[u] # phoneCodeHashes[u]
    /\ InFlight(u) # {}

\* C35: the entries of an account in the three maps change only in a step of
\* a request of that account: a step of a request or of a message event of
\* another account leaves them as they are.
C35_AccountsIsolated ==
  [][\A b \in Accounts :
       (\/ clients'[b] # clients[b]
        \/ sessions'[b] # sessions[b]
        \/ phoneCodeHashes'[b] # phoneCodeHashes[b])
         => \/ resp'.kind # "none" /\ resp'.user = b
            \/ \E t \in Tasks : tasks'[t].pc # tasks[t].pc /\ tasks[t].user = b]_vars

\* Account a is authenticated by a request that answers now, while account b
\* has a client and a pending hash of its own.
C35_Witness ==
  /\ resp.user = "a" /\ resp.out = "connected"
  /\ clients["a"] # None /\ sessions["a"] # None
  /\ clients["b"] # None /\ phoneCodeHashes["b"] # None
  /\ clients["b"] # clients["a"]

\* C36: an invocation of processVoiceCommand posts one message at most, the
\* reply or one error message: while it awaits the webhook call it has posted
\* the reply and nothing else, at every other call it has posted nothing.
C36_OneMessagePerInvocation ==
  \A i \in DOMAIN evs :
    /\ evs[i].posted <= 1
    /\ evs[i].pc = "p_forward" => evs[i].posted = 1
    /\ evs[i].pc \in PipelinePcs \ {"p_forward"} => evs[i].posted = 0

\* The second invocation for an event has failed and posted its error
\* message, after the first had posted its reply.
C36_Witness ==
  \E i \in DOMAIN evs :
    /\ evs[i].k = 0 /\ evs[i].runs = 2
    /\ evs[i].replies = 1 /\ evs[i].errs = 1 /\ evs[i].posted = 1

C38_StoredHashWins ==
  [][\A t \in Tasks :
       (tasks[t].pc = "idle" /\ tasks'[t].pc = "vc_signin")
         => LET savedHash == phoneCodeHashes[tasks'[t].user] IN
            /\ savedHash # None => tasks'[t].arg = savedHash
            /\ savedHash = None => tasks'[t].arg \in {None, WrongHash}]_vars

\* SignIn is awaited with the stored hash, on the client that sent the code.
C38_Witness ==
  \E t \in Tasks :
    /\ tasks[t].pc = "vc_signin"
    /\ phoneCodeHashes[tasks[t].user] # None
    /\ tasks[t].arg = phoneCodeHashes[tasks[t].user]
    /\ tasks[t].client = clients[tasks[t].user]
    /\ handles[tasks[t].client].st = "codeSent"

====
